---------------------------- MODULE Spec2Model ----------------------------
(***************************************************************************)
(* A model of jax/_src/tpu_custom_call.py: the Mosaic lowering decision    *)
(* (_lower_mosaic_module_to_asm), the pass pipeline (_lower_tpu_kernel),   *)
(* the construction of a CustomCallBackendConfig                           *)
(* (_lowered_to_custom_call_config), its encoding (to_json) and the        *)
(* lowering rule that emits the custom call (_tpu_custom_call_lowering).   *)
(*                                                                         *)
(* Python values are records [ty, i, s]: ty is the Python type, i the      *)
(* integer value (bool: 0/1), s the text of a str or the repr of a float.  *)
(* A byte string is modelled as the sequence of the tokens written to it:   *)
(* its bytes are their concatenation.                                      *)
(***************************************************************************)
EXTENDS Integers, Sequences, FiniteSets, TLC

VARIABLES
  pc,                         \* position of the running call
  MOSAIC_ALLOW_HLO,           \* config jax_mosaic_allow_hlo
  MOSAIC_USE_PYTHON_PIPELINE, \* config mosaic_use_python_pipeline
  FLAGS,                      \* absl flag xla_mosaic_on_device_checks
  device_kind,                \* jax.devices(backend)[0].device_kind
  call,                       \* the entry point called and its arguments
  heap,                       \* the ir.Module objects: the caller's and the clone
  module,                     \* the local `module`: a reference into heap
  hardware_generation,        \* argument of _lower_tpu_kernel
  checks,                     \* local of _lower_tpu_kernel
  analysis,                   \* result of tpu.private_has_communication
  needs_hlo_passes,           \* local of _lower_mosaic_module_to_asm
  needs_layout_passes,        \* local of _lower_mosaic_module_to_asm
  lowered,                    \* the bytecode and the four booleans passed on
  config,                     \* the CustomCallBackendConfig
  axis_context,               \* ctx.module_context.axis_context
  payload,                    \* bytes returned by to_json
  to_json_calls,              \* number of to_json calls begun
  custom_call,                \* the mlir.custom_call op emitted
  error                       \* the exception raised, if any

vars == <<pc, MOSAIC_ALLOW_HLO, MOSAIC_USE_PYTHON_PIPELINE, FLAGS, device_kind,
          call, heap, module, hardware_generation, checks, analysis,
          needs_hlo_passes, needs_layout_passes, lowered, config, axis_context, payload, to_json_calls, custom_call, error>>

(***************************************************************************)
(* Python values                                                           *)
(***************************************************************************)
None == [ty |-> "NoneType", i |-> 0, s |-> ""]
PyInt(n) == [ty |-> "int", i |-> n, s |-> ""]
PyBool(b) == [ty |-> "bool", i |-> IF b THEN 1 ELSE 0, s |-> ""]
PyFloat(r) == [ty |-> "float", i |-> 0, s |-> r]
PyStr(x) == [ty |-> "str", i |-> 0, s |-> x]

\* isinstance(v, bool); bool is a subclass of int
isinstance_bool(v) == v.ty = "bool"
isinstance_int(v) == v.ty \in {"int", "bool"}
isinstance_float(v) == v.ty = "float"

\* str(v)
str(v) ==
  CASE v.ty = "int" -> ToString(v.i)
    [] v.ty = "bool" -> IF v.i = 1 THEN "True" ELSE "False"
    [] v.ty = "NoneType" -> "None"
    [] OTHER -> v.s

\* s.lower() on the texts str() produces here
lower(s) ==
  CASE s = "True" -> "true"
    [] s = "False" -> "false"
    [] s = "None" -> "none"
    [] OTHER -> s

\* s.upper() on the device type tags
upper(s) ==
  CASE s = "tc" -> "TC"
    [] s = "sc_scalar_subcore" -> "SC_SCALAR_SUBCORE"
    [] OTHER -> s

(***************************************************************************)
(* base64.b64encode                                                        *)
(***************************************************************************)
B64Alphabet ==
  <<"A","B","C","D","E","F","G","H","I","J","K","L","M","N","O","P",
    "Q","R","S","T","U","V","W","X","Y","Z","a","b","c","d","e","f",
    "g","h","i","j","k","l","m","n","o","p","q","r","s","t","u","v",
    "w","x","y","z","0","1","2","3","4","5","6","7","8","9","+","/">>

b64group(bs) ==
  LET n == Len(bs)
      b1 == IF n >= 2 THEN bs[2] ELSE 0
      b2 == IF n >= 3 THEN bs[3] ELSE 0
      v == bs[1] * 65536 + b1 * 256 + b2
      c0 == B64Alphabet[((v \div 262144) % 64) + 1]
      c1 == B64Alphabet[((v \div 4096) % 64) + 1]
      c2 == B64Alphabet[((v \div 64) % 64) + 1]
      c3 == B64Alphabet[(v % 64) + 1]
  IN  c0 \o c1 \o (IF n >= 2 THEN c2 ELSE "=") \o (IF n >= 3 THEN c3 ELSE "=")

RECURSIVE b64encode(_)
b64encode(bs) ==
  IF bs = <<>> THEN ""
  ELSE IF Len(bs) <= 3 THEN b64group(bs)
  ELSE b64group(SubSeq(bs, 1, 3)) \o b64encode(SubSeq(bs, 4, Len(bs)))

(***************************************************************************)
(* CostEstimate and CustomCallBackendConfig                                *)
(***************************************************************************)
\* cost_estimate: CostEstimate | None
NoCostEstimate == [present |-> FALSE, flops |-> 0, transcendentals |-> 0,
                   bytes_accessed |-> 0]
CostEstimate(f, t, b) == [present |-> TRUE, flops |-> f, transcendentals |-> t,
                          bytes_accessed |-> b]

\* flags: dict | None and allow_input_fusion: list | None
NoItems == [present |-> FALSE, items |-> <<>>]
Items(xs) == [present |-> TRUE, items |-> xs]

CostEstimate_to_json(ce) ==
  "{\"flops\": " \o ToString(ce.flops) \o ", \"transcendentals\": "
    \o ToString(ce.transcendentals) \o ", \"bytes_accessed\": "
    \o ToString(ce.bytes_accessed) \o "}"

\* the dataclass constructor, fields in declaration order
CustomCallBackendConfig(asm, comm, cid, dt, ce, hlo, layout, vmem, fl, aif, sf, scratch) ==
  [lowered_module_asm |-> asm,
   has_communication |-> comm,
   collective_id |-> cid,
   device_type |-> dt,
   cost_estimate |-> ce,
   needs_hlo_passes |-> hlo,
   needs_layout_passes |-> layout,
   vmem_limit_bytes |-> vmem,
   flags |-> fl,
   allow_input_fusion |-> aif,
   serialization_format |-> sf,
   internal_scratch_in_bytes |-> scratch]

\* the value of `config` while no config exists
NoConfig ==
  CustomCallBackendConfig(<<>>, FALSE, None, None, NoCostEstimate, FALSE, FALSE,
                          None, NoItems, NoItems, None, None)

(***************************************************************************)
(* CustomCallBackendConfig.to_json: one operator per group of writes       *)
(***************************************************************************)
\* the text `, "<name>": ` that opens a field
Key(name) == ", \"" \o name \o "\": "

write_body(c) ==
  <<"{\"custom_call_config\": {\"body\": \"", b64encode(c.lowered_module_asm), "\"">>

write_has_communication(c) ==
  IF c.has_communication
  THEN <<Key("has_communication"), lower(str(PyBool(c.has_communication)))>>
  ELSE <<>>

write_collective_id(c) ==
  IF c.collective_id # None
  THEN <<Key("collective_id"), str(c.collective_id)>>
  ELSE <<>>

write_cost_estimate(c) ==
  IF c.cost_estimate.present
  THEN <<Key("cost_estimate"), CostEstimate_to_json(c.cost_estimate)>>
  ELSE <<>>

write_needs_hlo_passes(c) ==
  IF c.needs_hlo_passes
  THEN <<Key("needs_hlo_passes"), lower(str(PyBool(c.needs_hlo_passes)))>>
  ELSE <<>>

write_serialization_format(c) ==
  IF c.serialization_format # None
  THEN <<Key("serialization_format"), lower(str(c.serialization_format))>>
  ELSE <<>>

write_needs_layout_passes(c) ==
  IF c.needs_layout_passes
  THEN <<Key("needs_layout_passes"), lower(str(PyBool(c.needs_layout_passes)))>>
  ELSE <<>>

RECURSIVE fusion_items(_, _)
fusion_items(xs, i) ==
  IF i > Len(xs) THEN <<>>
  ELSE <<IF xs[i] THEN "true" ELSE "false">>
         \o (IF i # Len(xs) THEN <<",">> ELSE <<>>)
         \o fusion_items(xs, i + 1)

\* `if self.allow_input_fusion:` in place of the test against None
write_allow_input_fusion_if_truthy(c) ==
  IF c.allow_input_fusion.present /\ c.allow_input_fusion.items # <<>>
  THEN <<Key("allow_input_fusion"), "[">>
       \o fusion_items(c.allow_input_fusion.items, 1) \o <<"]">>
  ELSE <<>>

write_allow_input_fusion(c) ==
  IF c.allow_input_fusion.present
  THEN <<Key("allow_input_fusion"), "[">>
       \o fusion_items(c.allow_input_fusion.items, 1) \o <<"]">>
  ELSE <<>>

write_internal_scratch_in_bytes(c) ==
  IF c.internal_scratch_in_bytes # None
  THEN <<Key("internal_scratch_in_bytes"), str(c.internal_scratch_in_bytes)>>
  ELSE <<>>

write_end_custom_call_config(c) == <<"}">>

write_device_type(c) ==
  IF c.device_type # None
  THEN <<Key("device_type"), "\"DEVICE_TYPE_" \o upper(c.device_type.s) \o "\"">>
  ELSE <<>>

write_scoped_memory_configs(c) ==
  IF c.vmem_limit_bytes # None
  THEN <<Key("scoped_memory_configs"), "[{\"memory_space\":1, \"offset\": 0, \"size\": ",
         str(c.vmem_limit_bytes), "}]">>
  ELSE <<>>

\* the isinstance chain of one flag value: the chunks written, <<>> on raise
flag_value(value) ==
  IF isinstance_bool(value)
  THEN <<"\"boolean_value\": ", IF value.i = 1 THEN "true" ELSE "false">>
  ELSE IF isinstance_int(value)
  THEN <<"\"integer_value\": ", str(value)>>
  ELSE IF isinstance_float(value)
  THEN <<"\"double_value\": ", str(value)>>
  ELSE <<>>

\* the else branch: raise ValueError("invalid flag value: ...")
flag_value_raises(value) ==
  ~isinstance_bool(value) /\ ~isinstance_int(value) /\ ~isinstance_float(value)

flag_entry(flag, value) ==
  <<"{\"flag_type\": \"", flag, "\", value: {">> \o flag_value(value) \o <<"}}">>

RECURSIVE flag_entries(_, _)
flag_entries(xs, i) ==
  IF i > Len(xs) THEN <<>>
  ELSE flag_entry(xs[i].flag, xs[i].value)
         \o (IF i # Len(xs) THEN <<",">> ELSE <<>>)
         \o flag_entries(xs, i + 1)

write_flag_configs(c) ==
  IF c.flags.present
  THEN <<Key("flag_configs"), "[">> \o flag_entries(c.flags.items, 1) \o <<"]">>
  ELSE <<>>

write_implicit_sharding(c) ==
  <<Key("implicit_sharding"), "{\"type\": \"MANUAL\"}", "}">>

\* the loop over flags raises at the first value of another type
to_json_raises(c) ==
  c.flags.present
    /\ \E i \in 1..Len(c.flags.items) : flag_value_raises(c.flags.items[i].value)

\* device_type written before the end of custom_call_config
to_json_value_device_type_inside(c) ==
  write_body(c) \o write_has_communication(c) \o write_collective_id(c)
    \o write_cost_estimate(c) \o write_needs_hlo_passes(c)
    \o write_serialization_format(c) \o write_needs_layout_passes(c)
    \o write_allow_input_fusion(c) \o write_internal_scratch_in_bytes(c)
    \o write_device_type(c) \o write_end_custom_call_config(c)
    \o write_scoped_memory_configs(c) \o write_flag_configs(c)
    \o write_implicit_sharding(c)

to_json_value(c) ==
  write_body(c) \o write_has_communication(c) \o write_collective_id(c)
    \o write_cost_estimate(c) \o write_needs_hlo_passes(c)
    \o write_serialization_format(c) \o write_needs_layout_passes(c)
    \o write_allow_input_fusion(c) \o write_internal_scratch_in_bytes(c)
    \o write_end_custom_call_config(c) \o write_device_type(c)
    \o write_scoped_memory_configs(c) \o write_flag_configs(c)
    \o write_implicit_sharding(c)

\* to_json: [raised, value]; no bytes are returned when it raises
to_json(c) ==
  IF to_json_raises(c) THEN [raised |-> TRUE, value |-> <<>>]
  ELSE [raised |-> FALSE, value |-> to_json_value(c)]

(***************************************************************************)
(* _lowered_to_custom_call_config                                          *)
(***************************************************************************)
\* the elif branch left out
collective_id_raises_without_elif(has_custom_barrier, collective_id) ==
  has_custom_barrier /\ collective_id = None

\* lines 467-476: raise ValueError on a collective_id / custom barrier mismatch
collective_id_raises(has_custom_barrier, collective_id) ==
  IF has_custom_barrier THEN collective_id = None
  ELSE collective_id # None

\* the check left out
vmem_limit_bytes_never_raises(vmem_limit_bytes) == FALSE
\* isinstance(vmem_limit_bytes, (int, float))
vmem_limit_bytes_raises_unless_number(vmem_limit_bytes) ==
  vmem_limit_bytes # None /\ ~isinstance_int(vmem_limit_bytes)
    /\ ~isinstance_float(vmem_limit_bytes)

\* lines 477-481: raise ValueError unless vmem_limit_bytes is None or an int
vmem_limit_bytes_raises(vmem_limit_bytes) ==
  vmem_limit_bytes # None /\ ~isinstance_int(vmem_limit_bytes)

lowered_to_custom_call_config_raises(asm, a) ==
  \/ collective_id_raises(a.has_custom_barrier, a.collective_id)
  \/ vmem_limit_bytes_raises(a.vmem_limit_bytes)

lowered_to_custom_call_config(asm, a) ==
  CustomCallBackendConfig(asm, a.has_communication, a.collective_id, a.device_type,
                          a.cost_estimate, a.needs_hlo_passes, a.needs_layout_passes,
                          a.vmem_limit_bytes, a.flags, a.allow_input_fusion,
                          a.serialization_format, a.internal_scratch_in_bytes)

(***************************************************************************)
(* Strings read character by character                                     *)
(***************************************************************************)
\* device_kind.startswith("TPU v")
TPU_v == <<"T", "P", "U", " ", "v">>
startswith(s, prefix) ==
  Len(s) >= Len(prefix) /\ SubSeq(s, 1, Len(prefix)) = prefix

Digits == {"0", "1", "2", "3", "4", "5", "6", "7", "8", "9"}
\* int(ch) of a one-character string
int_of(ch) ==
  CASE ch = "0" -> 0 [] ch = "1" -> 1 [] ch = "2" -> 2 [] ch = "3" -> 3
    [] ch = "4" -> 4 [] ch = "5" -> 5 [] ch = "6" -> 6 [] ch = "7" -> 7
    [] ch = "8" -> 8 [] ch = "9" -> 9

\* checks.split(","): the flag text is a sequence of pieces, "," the separator
RECURSIVE split(_, _)
split(text, cur) ==
  IF text = <<>> THEN <<cur>>
  ELSE IF Head(text) = "," THEN <<cur>> \o split(Tail(text), "")
  ELSE split(Tail(text), cur \o Head(text))

\* set(checks.split(","))
set_of_split(text) ==
  LET toks == split(text, "") IN {toks[i] : i \in DOMAIN toks}

(***************************************************************************)
(* _lower_tpu_kernel: the pipelines handed to PassManager.parse            *)
(***************************************************************************)
sl_cnt == 8
l_cnt == 128
\* `<=` in place of `<`
mxu_size_le(hw) == IF hw <= 6 THEN 128 ELSE 256
mxu_size(hw) == IF hw < 6 THEN 128 ELSE 256

pipeline_hlo ==
  "builtin.module(hlo-legalize-to-arithmetic,func.func(hlo-legalize-to-linalg),"
    \o "func.func(linalg-vectorization))"
pipeline_infer_memref_layout(hw) ==
  "builtin.module(func.func(tpu-infer-memref-layout{hardware-generation="
    \o ToString(hw) \o "}))"
pipeline_simplify == "builtin.module(canonicalize,cse)"
pipeline_assert_insertion == "builtin.module(func.func(debug-assert-insertion))"
pipeline_canonicalize_mosaic == "builtin.module(func.func(tpu-canonicalize-mosaic{}))"
pipeline_infer_vector_layout ==
  "builtin.module(func.func(tpu-infer-vector-layout{sublane-count=8 lane-count=128}))"
pipeline_apply_vector_layout(hw) ==
  "builtin.module(func.func(tpu-apply-vector-layout{"
    \o " sublane-count=" \o ToString(sl_cnt) \o " lane-count=" \o ToString(l_cnt)
    \o " hardware-generation=" \o ToString(hw)
    \o " mxu-contracting-size=" \o ToString(mxu_size(hw))
    \o " mxu-noncontracting-size=" \o ToString(mxu_size(hw))
    \o " max-sublanes-in-scratch=" \o ToString(sl_cnt * (sl_cnt + 1))
    \o "}))"

\* line 311: `if checks := on_device_checks`; a KeyError leaves it False
on_device_checks_truthy(flags) == flags.defined /\ flags.value # <<>>
\* `"bounds" in checks` in place of the equality
checks_has_bounds(cs) == "bounds" \in cs
\* line 313
checks_is_bounds(cs) == cs = {"bounds"}
\* line 320: checks.discard("bounds")
discard_bounds(cs) == cs \ {"bounds"}

\* the stage that follows verification (line 277)
after_verify(allow_hlo) == IF allow_hlo THEN "hlo" ELSE "infer_memref_layout"

(***************************************************************************)
(* Bounds and input sets                                                   *)
(***************************************************************************)
MaxFlagLen == 3     \* pieces in the text of xla_mosaic_on_device_checks
MaxDevices == 2     \* num_devices of a ShardingContext
MaxFusion == 1      \* length of allow_input_fusion
MaxVmem == 1024     \* largest vmem_limit_bytes tried

FlagPieces == {"bounds", "x", ","}
RECURSIVE Texts(_)
Texts(n) ==
  IF n = 0 THEN {<<>>}
  ELSE Texts(n - 1) \cup {Append(t, p) : t \in {u \in Texts(n - 1) : Len(u) = n - 1}, p \in FlagPieces}

Undefined == [defined |-> FALSE, value |-> <<>>]
Defined(text) == [defined |-> TRUE, value |-> text]
\* the flag values tried by the pass pipeline alone, and by a whole call
AllFlagValues == {Undefined} \cup {Defined(t) : t \in Texts(MaxFlagLen)}
SomeFlagValues == {Undefined, Defined(<<"bounds">>), Defined(<<"x", ",", "bounds">>)}

TPUv4 == <<"T", "P", "U", " ", "v", "4">>
GPU == <<"G", "P", "U">>
TPUv4lite == <<"T", "P", "U", " ", "v", "4", "l", "i", "t", "e">>
TPUvX == <<"T", "P", "U", " ", "v", "X">>
GPUv4 == <<"G", "P", "U", " ", "v", "4">>
\* the device kinds tried: with and without the prefix, with and without a digit
DeviceKinds == {TPUv4, TPUv4lite, TPU_v, TPUvX, GPU, GPUv4}
HardwareGenerations == {4, 5, 6}

DeviceTypes == {None, PyStr("tc")}
VmemValues == {None, PyInt(-1), PyInt(MaxVmem), PyBool(TRUE), PyFloat("1.5")}
CollectiveIds == {None, PyInt(7)}
Flag(name, value) == [flag |-> name, value |-> value]
SomeFlags == {NoItems, Items(<<Flag("f", PyBool(TRUE))>>), Items(<<Flag("f", PyStr("on"))>>)}

AxisNames == {"x", "y"}
Meshes == {<<"x">>, <<"x", "y">>}
frozenset(t) == {t[i] : i \in DOMAIN t}
SPMDAxisContext(mesh, manual_axes) ==
  [kind |-> "SPMDAxisContext", axis_names |-> mesh, manual_axes |-> manual_axes,
   num_devices |-> 0]
ShardingContext(n) ==
  [kind |-> "ShardingContext", axis_names |-> <<>>, manual_axes |-> {}, num_devices |-> n]
ReplicaAxisContext ==
  [kind |-> "ReplicaAxisContext", axis_names |-> <<>>, manual_axes |-> {}, num_devices |-> 0]
NoAxisContext ==
  [kind |-> "", axis_names |-> <<>>, manual_axes |-> {}, num_devices |-> 0]
AxisContexts ==
  {SPMDAxisContext(m, a) : m \in Meshes, a \in SUBSET AxisNames}
    \cup {ShardingContext(n) : n \in 1..MaxDevices} \cup {ReplicaAxisContext}

(***************************************************************************)
(* State                                                                   *)
(***************************************************************************)
Module(passes) == [passes |-> passes]
\* an opaque function of the module: the MLIR bytecode magic, then a digest
write_bytecode(m) == <<77, 76, 239, 82, Len(m.passes)>>
\* module.operation.get_asm(binary=True, enable_debug_info=True)
get_asm(m) == <<77, 76, 239, 82, Len(m.passes)>>

NoCall ==
  [api |-> "", device_type |-> None, vmem_limit_bytes |-> None, flags |-> NoItems,
   collective_id |-> None, cost_estimate |-> NoCostEstimate,
   allow_input_fusion |-> NoItems, internal_scratch_in_bytes |-> None,
   serialization_format |-> None]
NoLowered ==
  [asm |-> <<>>, has_communication |-> FALSE, has_custom_barrier |-> FALSE,
   needs_hlo_passes |-> FALSE, needs_layout_passes |-> FALSE]
NoAnalysis == [has_communication |-> FALSE, has_custom_barrier |-> FALSE]
NoCustomCall == [emitted |-> FALSE, call_target_name |-> "", backend_config |-> <<>>]

env == <<MOSAIC_ALLOW_HLO, MOSAIC_USE_PYTHON_PIPELINE, FLAGS, device_kind>>

InitRest ==
  /\ call = NoCall
  /\ heap = [caller |-> Module(<<>>), clone |-> Module(<<>>)]
  /\ module = "caller"
  /\ hardware_generation = 0
  /\ checks = {}
  /\ analysis = NoAnalysis
  /\ needs_hlo_passes = FALSE
  /\ needs_layout_passes = FALSE
  /\ lowered = NoLowered
  /\ config = NoConfig
  /\ axis_context = NoAxisContext
  /\ payload = <<>>
  /\ to_json_calls = 0
  /\ custom_call = NoCustomCall
  /\ error = ""

Init ==
  /\ pc = "idle"
  /\ MOSAIC_ALLOW_HLO \in BOOLEAN
  /\ MOSAIC_USE_PYTHON_PIPELINE \in BOOLEAN
  /\ FLAGS \in SomeFlagValues
  /\ device_kind \in DeviceKinds
  /\ InitRest

(***************************************************************************)
(* _lower_tpu_kernel, one action per stage                                 *)
(***************************************************************************)
raise(e) == pc' = "raised" /\ error' = e

\* pipeline.run(module.operation): rewrites the module in place, may raise
run(pipeline, next) ==
  /\ heap' = [heap EXCEPT ![module].passes = Append(@, pipeline)]
  /\ \E ok \in BOOLEAN : IF ok THEN pc' = next /\ error' = error ELSE raise("MLIRError")

lowerer_frame == <<env, call, module, hardware_generation, analysis, needs_hlo_passes,
                   needs_layout_passes, lowered, config, axis_context, payload,
                   to_json_calls, custom_call>>

\* lines 263-266
verify ==
  /\ pc = "verify"
  /\ \E ok \in BOOLEAN :
       IF ok THEN pc' = after_verify(MOSAIC_ALLOW_HLO) /\ error' = error
       ELSE raise("ValueError: The compiled module fails MLIR verification")
  /\ UNCHANGED <<lowerer_frame, heap, checks>>

\* lines 277-286
hlo_conversion ==
  /\ pc = "hlo"
  /\ run(pipeline_hlo, "infer_memref_layout")
  /\ UNCHANGED <<lowerer_frame, checks>>

\* lines 291-296
infer_memref_layout ==
  /\ pc = "infer_memref_layout"
  /\ run(pipeline_infer_memref_layout(hardware_generation), "simplify")
  /\ UNCHANGED <<lowerer_frame, checks>>

\* lines 298-304
simplify ==
  /\ pc = "simplify"
  /\ run(pipeline_simplify, "on_device_checks")
  /\ UNCHANGED <<lowerer_frame, checks>>

\* lines 306-323
on_device_checks ==
  /\ pc = "on_device_checks"
  /\ IF ~on_device_checks_truthy(FLAGS)
     THEN pc' = "canonicalize_mosaic" /\ UNCHANGED <<heap, checks, error>>
     ELSE LET cs == set_of_split(FLAGS.value) IN
          IF checks_is_bounds(cs)
          THEN checks' = cs /\ run(pipeline_assert_insertion, "canonicalize_mosaic")
          ELSE IF cs # {}
          THEN /\ checks' = discard_bounds(cs)
               /\ raise("ValueError: Unrecognized on-device check categories")
               /\ UNCHANGED heap
          ELSE pc' = "canonicalize_mosaic" /\ checks' = cs /\ UNCHANGED <<heap, error>>
  /\ UNCHANGED lowerer_frame

\* lines 325-330
canonicalize_mosaic ==
  /\ pc = "canonicalize_mosaic"
  /\ run(pipeline_canonicalize_mosaic, "infer_vector_layout")
  /\ UNCHANGED <<lowerer_frame, checks>>

\* lines 332-337
infer_vector_layout ==
  /\ pc = "infer_vector_layout"
  /\ run(pipeline_infer_vector_layout, "apply_vector_layout")
  /\ UNCHANGED <<lowerer_frame, checks>>

\* lines 339-352
apply_vector_layout ==
  /\ pc = "apply_vector_layout"
  /\ run(pipeline_apply_vector_layout(hardware_generation), "simplify_again")
  /\ UNCHANGED <<lowerer_frame, checks>>

\* lines 354-362: the last pipeline, then `return module`
simplify_again ==
  /\ pc = "simplify_again"
  /\ run(pipeline_simplify, "lowered")
  /\ UNCHANGED <<lowerer_frame, checks>>

lower_tpu_kernel ==
  \/ verify
  \/ hlo_conversion
  \/ infer_memref_layout
  \/ simplify
  \/ on_device_checks
  \/ canonicalize_mosaic
  \/ infer_vector_layout
  \/ apply_vector_layout
  \/ simplify_again

\* _lower_tpu_kernel called on its own, with every value of the checks flag
InitLower ==
  /\ pc = "verify"
  /\ MOSAIC_ALLOW_HLO \in BOOLEAN
  /\ MOSAIC_USE_PYTHON_PIPELINE = FALSE
  /\ FLAGS \in AllFlagValues
  /\ device_kind = TPUv4
  /\ call = NoCall
  /\ heap = [caller |-> Module(<<>>), clone |-> Module(<<>>)]
  /\ module = "caller"
  /\ hardware_generation \in HardwareGenerations
  /\ checks = {}
  /\ analysis = NoAnalysis
  /\ needs_hlo_passes = FALSE
  /\ needs_layout_passes = FALSE
  /\ lowered = NoLowered
  /\ config = NoConfig
  /\ axis_context = NoAxisContext
  /\ payload = <<>>
  /\ to_json_calls = 0
  /\ custom_call = NoCustomCall
  /\ error = ""

SpecLower == InitLower /\ [][lower_tpu_kernel]_vars

(***************************************************************************)
(* The entry points                                                        *)
(***************************************************************************)
Args(api, device_type, vmem_limit_bytes, flags, collective_id, serialization_format) ==
  [api |-> api, device_type |-> device_type, vmem_limit_bytes |-> vmem_limit_bytes,
   flags |-> flags, collective_id |-> collective_id, cost_estimate |-> NoCostEstimate,
   allow_input_fusion |-> NoItems, internal_scratch_in_bytes |-> None,
   serialization_format |-> serialization_format]

call_frame == <<heap, module, hardware_generation, checks, analysis, needs_hlo_passes,
                needs_layout_passes, config, axis_context, payload, to_json_calls,
                custom_call, error>>

\* lines 538-566: as_tpu_kernel calls _lower_to_custom_call_config
as_tpu_kernel ==
  /\ pc = "idle"
  /\ \E dt \in DeviceTypes, vmem \in VmemValues, fl \in SomeFlags, cid \in CollectiveIds :
       call' = Args("as_tpu_kernel", dt, vmem, fl, cid, PyInt(1))
  /\ pc' = "lower_mosaic_module_to_asm"
  /\ UNCHANGED <<env, call_frame, lowered>>

\* lines 499-527: lower_module_to_custom_call calls _lower_to_custom_call_config
lower_module_to_custom_call ==
  /\ pc = "idle"
  /\ \E dt \in DeviceTypes, vmem \in VmemValues, fl \in SomeFlags, cid \in CollectiveIds :
       call' = Args("lower_module_to_custom_call", dt, vmem, fl, cid, None)
  /\ pc' = "lower_mosaic_module_to_asm"
  /\ UNCHANGED <<env, call_frame, lowered>>

\* lines 575-611: lowered_as_tpu_kernel takes the analysis results as arguments
lowered_as_tpu_kernel ==
  /\ pc = "idle"
  /\ \E dt \in DeviceTypes, vmem \in VmemValues, fl \in SomeFlags, cid \in CollectiveIds :
       call' = Args("lowered_as_tpu_kernel", dt, vmem, fl, cid, None)
  /\ \E has_communication \in BOOLEAN, has_custom_barrier \in BOOLEAN :
       lowered' = [asm |-> get_asm(heap[module]),
                   has_communication |-> has_communication,
                   has_custom_barrier |-> has_custom_barrier,
                   needs_hlo_passes |-> FALSE, needs_layout_passes |-> FALSE]
  /\ pc' = "construct"
  /\ UNCHANGED <<env, call_frame>>

(***************************************************************************)
(* _lower_mosaic_module_to_asm                                             *)
(***************************************************************************)
\* `not device_type`
not(v) ==
  CASE v.ty = "NoneType" -> TRUE
    [] v.ty = "str" -> v.s = ""
    [] v.ty = "float" -> FALSE
    [] OTHER -> v.i = 0

\* line 375
needs_layout_passes_of(device_type) == not(device_type)
\* `if _MOSAIC_USE_PYTHON_PIPELINE.value:` alone
lowers_eagerly_whatever_layout(layout, use_python_pipeline) == use_python_pipeline
\* line 381
lowers_eagerly(layout, use_python_pipeline) == layout /\ use_python_pipeline

\* lines 403-408: the value returned
asm_and_flags(asm, an, hlo, layout) ==
  [asm |-> asm,
   has_communication |-> an.has_communication,
   has_custom_barrier |-> an.has_custom_barrier,
   needs_hlo_passes |-> hlo,
   needs_layout_passes |-> layout]

\* a prefix test that looks at the length alone
startswith_by_length(s, prefix) == Len(s) >= Len(prefix)
\* line 384
is_tpu_device_kind(kind, prefix) == startswith(kind, prefix)

\* no clone: the name module keeps the object it had
module_not_parsed == module
\* lines 378-380: ir.Module.parse gives a new module object, bound to the name module
module_parsed == "clone"

\* lines 371-390: the analysis, the clone, the decision, the device kind
lower_mosaic_module_to_asm ==
  /\ pc = "lower_mosaic_module_to_asm"
  /\ \E has_communication \in BOOLEAN, has_custom_barrier \in BOOLEAN :
       analysis' = [has_communication |-> has_communication,
                    has_custom_barrier |-> has_custom_barrier]
  /\ needs_hlo_passes' = MOSAIC_ALLOW_HLO
  /\ needs_layout_passes' = needs_layout_passes_of(call.device_type)
  /\ heap' = [heap EXCEPT ![module_parsed] = heap[module]]
  /\ module' = module_parsed
  /\ IF lowers_eagerly(needs_layout_passes_of(call.device_type), MOSAIC_USE_PYTHON_PIPELINE)
     THEN IF ~is_tpu_device_kind(device_kind, TPU_v)
          THEN raise("ValueError: Unrecognized TPU device kind") /\ UNCHANGED hardware_generation
          ELSE IF Len(device_kind) < Len(TPU_v) + 1
          THEN raise("IndexError") /\ UNCHANGED hardware_generation
          ELSE IF device_kind[Len(TPU_v) + 1] \notin Digits
          THEN raise("ValueError: invalid literal for int()") /\ UNCHANGED hardware_generation
          ELSE /\ hardware_generation' = int_of(device_kind[Len(TPU_v) + 1])
               /\ pc' = "verify"
               /\ error' = error
     ELSE pc' = "serialize" /\ UNCHANGED <<hardware_generation, error>>
  /\ UNCHANGED <<env, call, checks, lowered, config, axis_context, payload,
                 to_json_calls, custom_call>>

\* lines 390-392: _lower_tpu_kernel has returned
lower_tpu_kernel_returns ==
  /\ pc = "lowered"
  /\ needs_hlo_passes' = FALSE
  /\ needs_layout_passes' = FALSE
  /\ pc' = "serialize"
  /\ UNCHANGED <<env, call, heap, module, hardware_generation, checks, analysis, lowered,
                 config, axis_context, payload, to_json_calls, custom_call, error>>

pipeline_serde == "builtin.module(mosaic-serde{serialize=true})"

\* lines 393-408: mosaic-serde, write_bytecode, return
serialize ==
  /\ pc = "serialize"
  /\ run(pipeline_serde, "construct")
  /\ lowered' = IF pc' = "construct"
                THEN asm_and_flags(write_bytecode(heap'[module]), analysis,
                                   needs_hlo_passes, needs_layout_passes)
                ELSE lowered
  /\ UNCHANGED <<env, call, module, hardware_generation, checks, analysis,
                 needs_hlo_passes, needs_layout_passes, config, axis_context, payload,
                 to_json_calls, custom_call>>

(***************************************************************************)
(* _lowered_to_custom_call_config, called by the three entry points        *)
(***************************************************************************)
construct_args ==
  [has_custom_barrier |-> lowered.has_custom_barrier,
   has_communication |-> lowered.has_communication,
   needs_hlo_passes |-> lowered.needs_hlo_passes,
   needs_layout_passes |-> lowered.needs_layout_passes,
   collective_id |-> call.collective_id,
   device_type |-> call.device_type,
   cost_estimate |-> call.cost_estimate,
   vmem_limit_bytes |-> call.vmem_limit_bytes,
   flags |-> call.flags,
   allow_input_fusion |-> call.allow_input_fusion,
   serialization_format |-> call.serialization_format,
   internal_scratch_in_bytes |-> call.internal_scratch_in_bytes]

construct ==
  /\ pc = "construct"
  /\ IF lowered_to_custom_call_config_raises(lowered.asm, construct_args)
     THEN /\ raise(IF collective_id_raises(lowered.has_custom_barrier, call.collective_id)
                   THEN "ValueError: collective_id"
                   ELSE "ValueError: vmem_limit_bytes must be an int")
          /\ UNCHANGED config
     ELSE /\ config' = lowered_to_custom_call_config(lowered.asm, construct_args)
          /\ pc' = "constructed"
          /\ error' = error
  /\ UNCHANGED <<env, call, heap, module, hardware_generation, checks, analysis,
                 needs_hlo_passes, needs_layout_passes, lowered,
                 axis_context, payload, to_json_calls, custom_call>>

(***************************************************************************)
(* _tpu_custom_call_lowering                                               *)
(***************************************************************************)
\* the ShardingContext branch left out
partitioning_raises_without_sharding(ctx, c) ==
  IF ctx.kind = "SPMDAxisContext"
  THEN ctx.manual_axes # frozenset(ctx.axis_names)
  ELSE c.has_communication

\* lines 200-215: the three branches that raise NotImplementedError
partitioning_raises(ctx, c) ==
  IF ctx.kind = "SPMDAxisContext"
  THEN ctx.manual_axes # frozenset(ctx.axis_names)
  ELSE IF ctx.kind = "ShardingContext"
  THEN ctx.num_devices # 1
  ELSE c.has_communication

\* lines 198-215
validate_partitioning ==
  /\ pc = "constructed"
  /\ \E ctx \in AxisContexts :
       /\ axis_context' = ctx
       /\ IF partitioning_raises(ctx, config)
          THEN raise("NotImplementedError")
          ELSE pc' = "validated" /\ error' = error
  /\ UNCHANGED <<env, call, heap, module, hardware_generation, checks, analysis,
                 needs_hlo_passes, needs_layout_passes, lowered, config,
                 payload, to_json_calls, custom_call>>

\* lines 216-240: config.to_json() is an argument of mlir.custom_call
emit_custom_call ==
  /\ pc = "validated"
  /\ to_json_calls' = to_json_calls + 1
  /\ IF to_json(config).raised
     THEN raise("ValueError: invalid flag value") /\ UNCHANGED <<payload, custom_call>>
     ELSE /\ payload' = to_json(config).value
          /\ custom_call' = [emitted |-> TRUE, call_target_name |-> "tpu_custom_call",
                             backend_config |-> to_json(config).value]
          /\ pc' = "emitted"
          /\ error' = error
  /\ UNCHANGED <<env, call, heap, module, hardware_generation, checks, analysis,
                 needs_hlo_passes, needs_layout_passes, lowered, config,
                 axis_context>>

Next ==
  \/ as_tpu_kernel
  \/ lower_module_to_custom_call
  \/ lowered_as_tpu_kernel
  \/ lower_mosaic_module_to_asm
  \/ lower_tpu_kernel
  \/ lower_tpu_kernel_returns
  \/ serialize
  \/ construct
  \/ validate_partitioning
  \/ emit_custom_call

Spec == Init /\ [][Next]_vars

(***************************************************************************)
(* CustomCallBackendConfig.to_json called on its own, on every config of   *)
(* a bounded set                                                           *)
(***************************************************************************)
FlagNames == {"f", "g"}
FlagValues == {PyBool(TRUE), PyInt(1), PyFloat("1.5"), PyStr("on")}
EncFlags ==
  {NoItems, Items(<<>>)}
    \cup {Items(<<Flag(n, v)>>) : n \in FlagNames, v \in FlagValues}
    \cup {Items(<<Flag(n[1], v[1]), Flag(n[2], v[2])>>) :
            n \in {m \in FlagNames \X FlagNames : m[1] # m[2]},
            v \in FlagValues \X FlagValues}
RECURSIVE BoolLists(_)
BoolLists(n) ==
  IF n = 0 THEN {<<>>}
  ELSE BoolLists(n - 1)
         \cup {Append(t, b) : t \in {u \in BoolLists(n - 1) : Len(u) = n - 1}, b \in BOOLEAN}
EncFusion == {NoItems} \cup {Items(xs) : xs \in BoolLists(MaxFusion)}
EncBodies == {<<77, 76>>, <<77, 76, 239, 82>>}

InitEnc ==
  /\ pc = "to_json"
  /\ MOSAIC_ALLOW_HLO = FALSE
  /\ MOSAIC_USE_PYTHON_PIPELINE = FALSE
  /\ FLAGS = Undefined
  /\ device_kind = TPUv4
  /\ call = NoCall
  /\ heap = [caller |-> Module(<<>>), clone |-> Module(<<>>)]
  /\ module = "caller"
  /\ hardware_generation = 0
  /\ checks = {}
  /\ analysis = NoAnalysis
  /\ needs_hlo_passes = FALSE
  /\ needs_layout_passes = FALSE
  /\ lowered = NoLowered
  /\ \E asm \in EncBodies, comm \in BOOLEAN, cid \in {None, PyInt(0)},
        dt \in DeviceTypes, ce \in {NoCostEstimate, CostEstimate(1, 0, 2)},
        hlo \in BOOLEAN, layout \in BOOLEAN, vmem \in {None, PyInt(MaxVmem)},
        fl \in EncFlags, aif \in EncFusion, sf \in {None, PyInt(1)},
        scratch \in {None, PyInt(0)} :
       config = CustomCallBackendConfig(asm, comm, cid, dt, ce, hlo, layout, vmem, fl,
                                        aif, sf, scratch)
  /\ axis_context = NoAxisContext
  /\ payload = <<>>
  /\ to_json_calls = 0
  /\ custom_call = NoCustomCall
  /\ error = ""

\* lines 104-178
encode ==
  /\ pc = "to_json"
  /\ to_json_calls' = to_json_calls + 1
  /\ IF to_json(config).raised
     THEN raise("ValueError: invalid flag value") /\ UNCHANGED payload
     ELSE payload' = to_json(config).value /\ pc' = "returned" /\ error' = error
  /\ UNCHANGED <<env, call, heap, module, hardware_generation, checks, analysis,
                 needs_hlo_passes, needs_layout_passes, lowered, config,
                 axis_context, custom_call>>

SpecEnc == InitEnc /\ [][encode]_vars

(***************************************************************************)
(* Properties of the encoding, checked under SpecEnc                       *)
(***************************************************************************)
FieldKey(name) == ", \"" \o name \o "\": "
HasKey(p, name) == LET k == FieldKey(name) IN \E i \in DOMAIN p : p[i] = k
KeyPositions(p, name) == LET k == FieldKey(name) IN {i \in DOMAIN p : p[i] = k}
\* the position of a key that occurs, 0 for one that does not
KeyPos(p, name) ==
  IF HasKey(p, name) THEN CHOOSE i \in KeyPositions(p, name) : TRUE ELSE 0
\* the key is directly followed by the tokens ts
KeyFollowedBy(p, name, ts) ==
  \E i \in KeyPositions(p, name) :
    /\ i + Len(ts) <= Len(p)
    /\ \A k \in 1..Len(ts) : p[i + k] = ts[k]
RECURSIVE Concat(_)
Concat(ts) == IF ts = <<>> THEN "" ELSE Head(ts) \o Concat(Tail(ts))

\* C1 as stated: in every payload to_json returns, each of the eleven optional
\* fields has its key in the payload iff its source value is not absent (not
\* None); a bool is never None, so the three bool fields would always appear.
C1_KeyIffNotAbsent ==
  pc = "returned" =>
    /\ HasKey(payload, "has_communication")
    /\ HasKey(payload, "needs_hlo_passes")
    /\ HasKey(payload, "needs_layout_passes")
    /\ HasKey(payload, "collective_id") <=> config.collective_id # None
    /\ HasKey(payload, "cost_estimate") <=> config.cost_estimate.present
    /\ HasKey(payload, "serialization_format") <=> config.serialization_format # None
    /\ HasKey(payload, "allow_input_fusion") <=> config.allow_input_fusion.present
    /\ HasKey(payload, "internal_scratch_in_bytes")
         <=> config.internal_scratch_in_bytes # None
    /\ HasKey(payload, "device_type") <=> config.device_type # None
    /\ HasKey(payload, "scoped_memory_configs") <=> config.vmem_limit_bytes # None
    /\ HasKey(payload, "flag_configs") <=> config.flags.present

\* C1 as amended: in every payload to_json returns, the key of each of the three
\* bool fields is present iff the field is true, the key of each of the other
\* eight fields is present iff the field is not None, and an empty
\* allow_input_fusion list or flags mapping is written as the empty container [].
C1_KeyIffTrueOrNotNone ==
  pc = "returned" =>
    /\ HasKey(payload, "has_communication") <=> config.has_communication
    /\ HasKey(payload, "needs_hlo_passes") <=> config.needs_hlo_passes
    /\ HasKey(payload, "needs_layout_passes") <=> config.needs_layout_passes
    /\ HasKey(payload, "collective_id") <=> config.collective_id # None
    /\ HasKey(payload, "cost_estimate") <=> config.cost_estimate.present
    /\ HasKey(payload, "serialization_format") <=> config.serialization_format # None
    /\ HasKey(payload, "allow_input_fusion") <=> config.allow_input_fusion.present
    /\ HasKey(payload, "internal_scratch_in_bytes")
         <=> config.internal_scratch_in_bytes # None
    /\ HasKey(payload, "device_type") <=> config.device_type # None
    /\ HasKey(payload, "scoped_memory_configs") <=> config.vmem_limit_bytes # None
    /\ HasKey(payload, "flag_configs") <=> config.flags.present
    /\ config.allow_input_fusion = Items(<<>>)
         => KeyFollowedBy(payload, "allow_input_fusion", <<"[", "]">>)
    /\ config.flags = Items(<<>>) => KeyFollowedBy(payload, "flag_configs", <<"[", "]">>)

\* a payload of a config with both containers empty, a collective_id of 0 and
\* has_communication false
C1_Witness ==
  /\ pc = "returned"
  /\ config.allow_input_fusion = Items(<<>>)
  /\ config.flags = Items(<<>>)
  /\ config.collective_id = PyInt(0)
  /\ ~config.has_communication
  /\ HasKey(payload, "collective_id")
  /\ ~HasKey(payload, "has_communication")

\* the entry the grammar of the flags gives for one flag
GrammarKind(v) ==
  CASE v.ty = "bool" -> "\"boolean_value\": " \o (IF v.i = 1 THEN "true" ELSE "false")
    [] v.ty = "int" -> "\"integer_value\": " \o ToString(v.i)
    [] v.ty = "float" -> "\"double_value\": " \o v.s
    [] OTHER -> ""
GrammarEntry(f) ==
  "{\"flag_type\": \"" \o f.flag \o "\", \"value\": {" \o GrammarKind(f.value) \o "}}"
RECURSIVE GrammarEntries(_)
GrammarEntries(fs) ==
  IF fs = <<>> THEN ""
  ELSE GrammarEntry(Head(fs)) \o (IF Len(fs) > 1 THEN "," ELSE "")
         \o GrammarEntries(Tail(fs))
\* the text between the key flag_configs and the key implicit_sharding
FlagSection(p) ==
  Concat(SubSeq(p, KeyPos(p, "flag_configs") + 1, KeyPos(p, "implicit_sharding") - 1))
GrammarValueOk(v) == v.ty \in {"bool", "int", "float"}

\* C7: the flags are written as [{"flag_type": "<name>", "value": {"<kind>":
\* <value>}}, ...] with both keys quoted, in mapping order, comma separated, the
\* kind boolean_value for a bool, integer_value for another int, double_value for
\* a float; a value of another type makes to_json raise and return nothing.
C7_FlagGrammar ==
  /\ (pc = "returned" /\ config.flags.present)
       => FlagSection(payload) = "[" \o GrammarEntries(config.flags.items) \o "]"
  /\ (pc # "to_json" /\ config.flags.present
        /\ \E i \in DOMAIN config.flags.items : ~GrammarValueOk(config.flags.items[i].value))
       => (pc = "raised" /\ payload = <<>>)

\* the fields in the order of the grammar; the first nine are inside
\* custom_call_config
FieldOrder ==
  <<"has_communication", "collective_id", "cost_estimate", "needs_hlo_passes",
    "serialization_format", "needs_layout_passes", "allow_input_fusion",
    "internal_scratch_in_bytes", "device_type", "scoped_memory_configs",
    "flag_configs", "implicit_sharding">>
Base64Of(bs) == IF bs = <<77, 76>> THEN "TUw=" ELSE "TUzvUg=="
\* the keys in that order, with the brace that ends custom_call_config after
\* the ninth field (body being the first) and the brace that ends the payload
Marks ==
  <<FieldKey("has_communication"), FieldKey("collective_id"), FieldKey("cost_estimate"),
    FieldKey("needs_hlo_passes"), FieldKey("serialization_format"),
    FieldKey("needs_layout_passes"), FieldKey("allow_input_fusion"),
    FieldKey("internal_scratch_in_bytes"), "}", FieldKey("device_type"),
    FieldKey("scoped_memory_configs"), FieldKey("flag_configs"),
    FieldKey("implicit_sharding"), "}">>
MarkSet == {Marks[i] : i \in DOMAIN Marks}
IsMark(t) == t \in MarkSet

\* C8: every payload to_json returns starts with the body field holding the
\* base64 of the bytecode, has each emitted key once and in the grammar's order,
\* the first nine inside custom_call_config and the others after it, and ends
\* with "implicit_sharding": {"type": "MANUAL"} and the closing brace.
C8_FieldOrder ==
  pc = "returned" =>
    LET n == Len(payload)
        tokens == {payload[i] : i \in DOMAIN payload}
        Emitted(m) == m \in tokens
    IN  /\ n >= 7
        /\ payload[1] = "{\"custom_call_config\": {\"body\": \""
        /\ payload[2] = Base64Of(config.lowered_module_asm)
        /\ payload[3] = "\""
        /\ SelectSeq(payload, IsMark) = SelectSeq(Marks, Emitted)
        /\ payload[n - 2] = FieldKey("implicit_sharding")
        /\ payload[n - 1] = "{\"type\": \"MANUAL\"}"
        /\ payload[n] = "}"

\* a payload that holds all twelve keys
C8_Witness ==
  /\ pc = "returned"
  /\ \A i \in DOMAIN FieldOrder : HasKey(payload, FieldOrder[i])

(***************************************************************************)
(* Properties of a whole call, checked under Spec                          *)
(***************************************************************************)
ConstructErrors ==
  {"ValueError: collective_id", "ValueError: vmem_limit_bytes must be an int"}
\* _lowered_to_custom_call_config has been called and has returned or raised
AfterConstruct ==
  \/ pc \in {"constructed", "validated", "emitted"}
  \/ /\ pc = "raised"
     /\ error \in ConstructErrors \cup {"NotImplementedError", "ValueError: invalid flag value"}
Constructed == config # NoConfig
\* collective_id is present exactly when has_custom_barrier was passed as true
BarrierConsistent == (call.collective_id # None) <=> lowered.has_custom_barrier
VmemIsIntOrNone == call.vmem_limit_bytes.ty \in {"NoneType", "int", "bool"}
FlagsValid(fl) == \A i \in DOMAIN fl.items : fl.items[i].value.ty \in {"bool", "int", "float"}

\* C2 as stated: _lowered_to_custom_call_config fails when collective_id is set
\* without has_custom_barrier or has_custom_barrier is true without a
\* collective_id, and succeeds on both consistent combinations, returning a
\* config with the supplied collective_id.
C2_ConsistentSucceeds ==
  AfterConstruct =>
    /\ ~BarrierConsistent
         => (pc = "raised" /\ error = "ValueError: collective_id" /\ ~Constructed)
    /\ BarrierConsistent
         => (Constructed /\ config.collective_id = call.collective_id)

\* C2 as amended: the inconsistent combinations fail with the collective_id
\* error; a consistent combination succeeds, with the supplied collective_id in
\* the config, exactly when vmem_limit_bytes is None or an int, and fails with
\* the vmem_limit_bytes error otherwise.
C2_ConsistentSucceedsIfVmemInt ==
  AfterConstruct =>
    /\ ~BarrierConsistent
         => (pc = "raised" /\ error = "ValueError: collective_id" /\ ~Constructed)
    /\ (BarrierConsistent /\ VmemIsIntOrNone)
         => (Constructed /\ config.collective_id = call.collective_id
               /\ error \notin ConstructErrors)
    /\ (BarrierConsistent /\ ~VmemIsIntOrNone)
         => (pc = "raised" /\ ~Constructed
               /\ error = "ValueError: vmem_limit_bytes must be an int")

\* a config built by as_tpu_kernel for a module with a custom barrier
C2_Witness ==
  /\ pc = "constructed"
  /\ call.api = "as_tpu_kernel"
  /\ lowered.has_custom_barrier
  /\ config.collective_id = PyInt(7)

\* C3 as stated: no to_json call begins, and no custom call is emitted, on a
\* config with a collective_id / custom barrier mismatch, a non-int
\* vmem_limit_bytes or a flag value that is not bool, int or float.
C3_NoEncodingOfMalformed ==
  (to_json_calls > 0 \/ custom_call.emitted)
    => (BarrierConsistent /\ VmemIsIntOrNone /\ FlagsValid(config.flags))

\* C3 as amended: a collective_id mismatch and a non-int vmem_limit_bytes are
\* raised by the construction, before any to_json call; a flag value of another
\* type is raised by to_json itself, after the construction and the partitioning
\* check; no custom call is ever emitted for a config with any of the three.
C3_MalformedNeverEmitted ==
  /\ to_json_calls > 0 => (Constructed /\ BarrierConsistent /\ VmemIsIntOrNone)
  /\ error \in ConstructErrors
       => (to_json_calls = 0 /\ ~custom_call.emitted /\ payload = <<>>)
  /\ (AfterConstruct /\ ~(BarrierConsistent /\ VmemIsIntOrNone))
       => (pc = "raised" /\ error \in ConstructErrors)
  /\ (to_json_calls > 0 /\ ~FlagsValid(config.flags))
       => (pc = "raised" /\ error = "ValueError: invalid flag value"
             /\ ~custom_call.emitted /\ payload = <<>>)
  /\ custom_call.emitted
       => (BarrierConsistent /\ VmemIsIntOrNone /\ FlagsValid(config.flags))

\* to_json was called on a config with a str flag value, and raised
C3_Witness ==
  /\ pc = "raised"
  /\ error = "ValueError: invalid flag value"
  /\ to_json_calls = 1
  /\ ~FlagsValid(config.flags)
  /\ ~custom_call.emitted

SizeOpen == "[{\"memory_space\":1, \"offset\": 0, \"size\": "
\* C4 as stated: vmem_limit_bytes of a constructed config is absent or a
\* non-negative integer, and so is the size of an emitted scoped_memory_configs.
C4_VmemNonNegative ==
  /\ Constructed
       => \/ config.vmem_limit_bytes = None
          \/ /\ config.vmem_limit_bytes.ty \in {"int", "bool"}
             /\ config.vmem_limit_bytes.i >= 0
  /\ (custom_call.emitted /\ HasKey(payload, "scoped_memory_configs"))
       => \E n \in 0..(MaxVmem + 1) :
            KeyFollowedBy(payload, "scoped_memory_configs", <<SizeOpen, ToString(n), "}]">>)

\* C4 as amended: vmem_limit_bytes of a constructed config is absent or an
\* instance of int (a bool included), of either sign; a value of another type
\* makes the construction fail, so it is in no config and no emitted size.
C4_VmemIntOrNone ==
  /\ Constructed
       => /\ config.vmem_limit_bytes = call.vmem_limit_bytes
          /\ config.vmem_limit_bytes.ty \in {"NoneType", "int", "bool"}
  /\ (AfterConstruct /\ call.vmem_limit_bytes.ty \notin {"NoneType", "int", "bool"})
       => (~Constructed /\ ~custom_call.emitted /\ to_json_calls = 0)
  /\ (custom_call.emitted /\ HasKey(payload, "scoped_memory_configs"))
       => /\ call.vmem_limit_bytes.ty \in {"int", "bool"}
          /\ KeyFollowedBy(payload, "scoped_memory_configs",
               <<SizeOpen,
                 IF call.vmem_limit_bytes.ty = "int" THEN ToString(call.vmem_limit_bytes.i)
                 ELSE IF call.vmem_limit_bytes.i = 1 THEN "True" ELSE "False",
                 "}]">>)

\* a custom call emitted with a negative scoped memory size
C4_Witness ==
  /\ custom_call.emitted
  /\ config.vmem_limit_bytes = PyInt(-1)
  /\ KeyFollowedBy(payload, "scoped_memory_configs", <<SizeOpen, "-1", "}]">>)

LoweringApi == call.api \in {"as_tpu_kernel", "lower_module_to_custom_call"}
Eager == call.device_type = None /\ MOSAIC_USE_PYTHON_PIPELINE
LowererPcs ==
  {"verify", "hlo", "infer_memref_layout", "simplify", "on_device_checks",
   "canonicalize_mosaic", "infer_vector_layout", "apply_vector_layout",
   "simplify_again", "lowered"}
\* _lower_mosaic_module_to_asm has returned
AsmReturned == LoweringApi /\ lowered # NoLowered
Serde == "builtin.module(mosaic-serde{serialize=true})"

\* C5: _lower_mosaic_module_to_asm runs the Module Lowerer only when the device
\* type is absent and the python pipeline is enabled, and then returns with both
\* needs_hlo_passes and needs_layout_passes false; otherwise it only serializes
\* the unlowered module and returns needs_hlo_passes = the allow-HLO flag and
\* needs_layout_passes = (device type absent); has_communication and
\* has_custom_barrier are returned as the analysis reported them.
C5_LoweringDecision ==
  /\ pc \in LowererPcs => Eager
  /\ AsmReturned =>
       /\ lowered.has_communication = analysis.has_communication
       /\ lowered.has_custom_barrier = analysis.has_custom_barrier
       /\ heap.caller.passes = <<>>
       /\ IF Eager
          THEN /\ Len(heap.clone.passes) \in 7..9
               /\ heap.clone.passes[Len(heap.clone.passes)] = Serde
               /\ heap.clone.passes[Len(heap.clone.passes) - 1]
                    = "builtin.module(canonicalize,cse)"
               /\ ~lowered.needs_hlo_passes
               /\ ~lowered.needs_layout_passes
          ELSE /\ heap.clone.passes = <<Serde>>
               /\ lowered.needs_hlo_passes = MOSAIC_ALLOW_HLO
               /\ lowered.needs_layout_passes = (call.device_type = None)

\* an eager lowering with the allow-HLO flag set has returned
C5_Witness ==
  /\ AsmReturned
  /\ Eager
  /\ MOSAIC_ALLOW_HLO
  /\ ~lowered.needs_hlo_passes
  /\ analysis.has_communication
  /\ ~analysis.has_custom_barrier

\* the rejection rule of the partitioning validation
MustReject(ctx, has_communication) ==
  CASE ctx.kind = "SPMDAxisContext" ->
         ~(\A a \in AxisNames :
             a \in ctx.manual_axes <=> \E i \in DOMAIN ctx.axis_names : ctx.axis_names[i] = a)
    [] ctx.kind = "ShardingContext" -> ctx.num_devices # 1
    [] OTHER -> has_communication

\* C6: the lowering rule rejects the call, with NotImplementedError, before any
\* to_json call and any emission, exactly when the manual axes of an SPMD
\* context are not all mesh axes, the device count of a sharding context is not
\* 1, or in another context the config has communication.
C6_PartitioningValidation ==
  axis_context # NoAxisContext =>
    /\ (error = "NotImplementedError") <=> MustReject(axis_context, config.has_communication)
    /\ error = "NotImplementedError"
         => (pc = "raised" /\ to_json_calls = 0 /\ ~custom_call.emitted /\ payload = <<>>)
    /\ ~MustReject(axis_context, config.has_communication)
         => pc \in {"validated", "emitted", "raised"}

\* a communicating kernel rejected under a replica context
C6_Witness ==
  /\ error = "NotImplementedError"
  /\ axis_context = ReplicaAxisContext
  /\ config.has_communication

(***************************************************************************)
(* Properties of the pass pipeline, checked under SpecLower                *)
(***************************************************************************)
IsPrefix(a, b) == Len(a) <= Len(b) /\ a = SubSeq(b, 1, Len(a))
\* the tokens of the comma-separated flag text
Separators(t) == {0, Len(t) + 1} \cup {i \in DOMAIN t : t[i] = ","}
Tokens(t) ==
  {Concat(SubSeq(t, p[1] + 1, p[2] - 1)) :
     p \in {q \in Separators(t) \X Separators(t) :
              q[1] < q[2] /\ ~\E c \in Separators(t) : q[1] < c /\ c < q[2]}}
\* the set of categories in the flag: none when it is unset or empty
Categories == IF FLAGS.defined /\ FLAGS.value # <<>> THEN Tokens(FLAGS.value) ELSE {}
AssertInsertion == "builtin.module(func.func(debug-assert-insertion))"
ExpectedStages ==
  (IF MOSAIC_ALLOW_HLO
   THEN <<"builtin.module(hlo-legalize-to-arithmetic,func.func(hlo-legalize-to-linalg),func.func(linalg-vectorization))">>
   ELSE <<>>)
    \o <<"builtin.module(func.func(tpu-infer-memref-layout{hardware-generation="
           \o ToString(hardware_generation) \o "}))",
         "builtin.module(canonicalize,cse)">>
    \o (IF Categories = {"bounds"} THEN <<AssertInsertion>> ELSE <<>>)
    \o <<"builtin.module(func.func(tpu-canonicalize-mosaic{}))",
         "builtin.module(func.func(tpu-infer-vector-layout{sublane-count=8 lane-count=128}))",
         "builtin.module(func.func(tpu-apply-vector-layout{ sublane-count=8 lane-count=128"
           \o " hardware-generation=" \o ToString(hardware_generation)
           \o (IF hardware_generation < 6
               THEN " mxu-contracting-size=128 mxu-noncontracting-size=128"
               ELSE " mxu-contracting-size=256 mxu-noncontracting-size=256")
           \o " max-sublanes-in-scratch=72}))",
         "builtin.module(canonicalize,cse)">>
\* the number of pipelines that have run when the lowerer is at a position
StagesDone(at) ==
  LET h == IF MOSAIC_ALLOW_HLO THEN 1 ELSE 0
      a == IF Categories = {"bounds"} THEN 1 ELSE 0
  IN  CASE at \in {"verify", "hlo"} -> 0
        [] at = "infer_memref_layout" -> h
        [] at = "simplify" -> h + 1
        [] at = "on_device_checks" -> h + 2
        [] at = "canonicalize_mosaic" -> h + 2 + a
        [] at = "infer_vector_layout" -> h + 3 + a
        [] at = "apply_vector_layout" -> h + 4 + a
        [] at = "simplify_again" -> h + 5 + a
        [] at = "lowered" -> h + 6 + a

\* C9: the pipelines run on the module are always a prefix of the stage list of
\* the claim, one stage per step; the module is returned only after the whole
\* list; a failed verification leaves the list empty; after a failure no stage
\* runs and nothing is returned.
C9_StageOrder ==
  /\ IsPrefix(heap[module].passes, ExpectedStages)
  /\ pc # "raised" => Len(heap[module].passes) = StagesDone(pc)
  /\ pc = "lowered" => heap[module].passes = ExpectedStages
  /\ pc = "hlo" => MOSAIC_ALLOW_HLO
  /\ error = "ValueError: The compiled module fails MLIR verification"
       => heap[module].passes = <<>>
  /\ pc = "raised" => (error # "" /\ ~ENABLED lower_tpu_kernel)

\* a full run for generation 6 with HLO conversion and assertion insertion
C9_Witness ==
  /\ pc = "lowered"
  /\ hardware_generation = 6
  /\ MOSAIC_ALLOW_HLO
  /\ Len(heap[module].passes) = 8
  /\ heap[module].passes[4] = AssertInsertion

LaterStages ==
  {"canonicalize_mosaic", "infer_vector_layout", "apply_vector_layout",
   "simplify_again", "lowered"}
Unrecognized == "ValueError: Unrecognized on-device check categories"
AssertionsRan == \E i \in DOMAIN heap[module].passes : heap[module].passes[i] = AssertInsertion

\* C10: assertion insertion runs iff the categories of the flag are exactly
\* {"bounds"}; an unset or empty flag gives neither the stage nor the error; any
\* other token makes the lowering fail after memory-layout inference and the
\* first simplification, before the later stages, with an error that lists
\* exactly the tokens other than "bounds".
C10_OnDeviceChecks ==
  /\ AssertionsRan => Categories = {"bounds"}
  /\ pc \in LaterStages => (AssertionsRan <=> Categories = {"bounds"})
  /\ Categories = {} => (~AssertionsRan /\ error # Unrecognized)
  /\ ~(Categories \subseteq {"bounds"}) => (pc \notin LaterStages /\ ~AssertionsRan)
  /\ error = Unrecognized =>
       /\ pc = "raised"
       /\ ~(Categories \subseteq {"bounds"})
       /\ checks = Categories \ {"bounds"}
       /\ heap[module].passes
            = SubSeq(ExpectedStages, 1, (IF MOSAIC_ALLOW_HLO THEN 1 ELSE 0) + 2)

\* the flag "bounds,x" has stopped the lowering, the error listing x
C10_Witness ==
  /\ error = Unrecognized
  /\ FLAGS = Defined(<<"bounds", ",", "x">>)
  /\ checks = {"x"}

DeviceKindErrors ==
  {"ValueError: Unrecognized TPU device kind", "IndexError",
   "ValueError: invalid literal for int()"}
\* the device kind is the prefix "TPU v" followed by a decimal digit
PrefixThenDigit ==
  /\ Len(device_kind) >= 6
  /\ SubSeq(device_kind, 1, 5) = <<"T", "P", "U", " ", "v">>
  /\ device_kind[6] \in {"0", "1", "2", "3", "4", "5", "6", "7", "8", "9"}
EagerRequested == LoweringApi /\ Eager
\* _lower_mosaic_module_to_asm has taken its decision
Decided == LoweringApi /\ pc \notin {"idle", "lower_mosaic_module_to_asm"}

\* C11: when eager lowering is requested the Module Lowerer gets the digit that
\* follows "TPU v" in the device kind ("TPU v4" and "TPU v4lite" give 4); a
\* device kind that is not "TPU v" followed by a digit fails the call with the
\* lowerer never entered and no bytecode produced; when eager lowering is not
\* requested the device kind causes no failure and no generation is taken.
C11_DeviceKindParsing ==
  /\ pc \in LowererPcs =>
       /\ EagerRequested
       /\ PrefixThenDigit
       /\ ToString(hardware_generation) = device_kind[6]
       /\ device_kind \in {TPUv4, TPUv4lite} => hardware_generation = 4
  /\ (Decided /\ EagerRequested /\ ~PrefixThenDigit) =>
       /\ pc = "raised"
       /\ error \in DeviceKindErrors
       /\ hardware_generation = 0
       /\ heap.clone.passes = <<>>
       /\ lowered = NoLowered
       /\ payload = <<>>
  /\ (Decided /\ EagerRequested /\ PrefixThenDigit) => error \notin DeviceKindErrors
  /\ ~EagerRequested => (error \notin DeviceKindErrors /\ hardware_generation = 0)

\* "TPU v4lite" has been lowered as generation 4, down to the bytecode
C11_Witness ==
  /\ device_kind = TPUv4lite
  /\ EagerRequested
  /\ hardware_generation = 4
  /\ lowered # NoLowered
  /\ Len(heap.clone.passes) >= 7

\* "GPU v4", with a digit in the right place but not the prefix, has failed the call
C11_WitnessRejected ==
  /\ device_kind = GPUv4
  /\ EagerRequested
  /\ pc = "raised"
  /\ error = "ValueError: Unrecognized TPU device kind"

Untouched == Module(<<>>)

\* C12: as_tpu_kernel and lower_module_to_custom_call never change the caller's
\* module: _lower_mosaic_module_to_asm clones it first, and the stages of the
\* Module Lowerer and the serialization pass run on the clone, on every path,
\* whether the call returns or fails; the Module Lowerer itself works in place
\* on the module it is handed and returns that module.
C12_CallerModuleUntouched ==
  /\ heap.caller = Untouched
  /\ Decided => module = "clone"
  /\ ~Decided => (module = "caller" /\ heap.clone = Untouched)
  /\ (pc \in LowererPcs \ {"verify", "hlo", "infer_memref_layout"})
       => heap[module].passes # <<>>
  /\ (LoweringApi /\ pc \in {"construct", "constructed", "validated", "emitted"})
       => heap.clone.passes[Len(heap.clone.passes)] = Serde

\* C12 as stated: the caller's module is untouched and the Module Lowerer clones
\* the module it is handed before any stage, so that module is untouched too.
C12_LowererClonesFirst ==
  /\ heap.caller = Untouched
  /\ pc \in LowererPcs => heap[module] = Untouched

\* an eager call has run every stage and the serialization pass on the clone and
\* has emitted the custom call
C12_Witness ==
  /\ pc = "emitted"
  /\ EagerRequested
  /\ module = "clone"
  /\ Len(heap.clone.passes) >= 8
  /\ heap.caller = Untouched

\* a stage has failed in the lowerer after the clone was rewritten
C12_WitnessFailed ==
  /\ pc = "raised"
  /\ error = "MLIRError"
  /\ Len(heap.clone.passes) >= 2
  /\ heap.caller = Untouched

=============================================================================
